---- MODULE Spec2Model ----
(***************************************************************************)
(* Real-time presence and conversation messaging of the SIH backend.       *)
(*                                                                         *)
(* The model follows the presence and typing registries of                *)
(* config/socket.js (src/src/database/messaging_schema.sql, lines 117 on), *)
(* the socket.io messaging handlers (src/src/sockets/community.socket.js,  *)
(* lines 300 on) and src/src/services/messaging.service.js (the Supabase   *)
(* store calls).  A handler that awaits a store call is split at each      *)
(* await: the store call and the code that runs when it resolves form one  *)
(* step, and other handlers may run between two steps of the same handler. *)
(***************************************************************************)
EXTENDS Integers, Sequences, FiniteSets, TLC

(* ----------------------------- bounds ---------------------------------- *)
NumUsers == 3
NumSockets == 3
MaxMsgs == 2
MaxPending == 1
MaxTextLen == 2
MaxFanoutMsgs == 1
MaxCalls == 2

Users == 1..NumUsers
Sockets == 1..NumSockets

\* Conversation ids a client names in a payload.  1 and 2 exist in the
\* store; BogusConv names no row of public.conversations.
BogusConv == 0
ConvIds == {1, 2}
ClientConvIds == ConvIds \cup {BogusConv}

\* The rows of public.conversations: student 1 talks to counsellors 2 and 3.
InitConversations ==
  { [id |-> 1, student_id |-> 1, counsellor_id |-> 2],
    [id |-> 2, student_id |-> 1, counsellor_id |-> 3] }

NoUser == 0
NoMsg == 0

VARIABLES
  socks,          \* socket id -> [st, user]: the connection and socket.user
  activeUsers,    \* Map userId -> Set of socket ids
  typingUsers,    \* Map conversationId -> Set of user ids
  rooms,          \* socket id -> set of rooms the adapter holds it in
  conversations,  \* rows of public.conversations
  messages,       \* rows of public.messages, in insertion order
  pending,        \* handler invocations suspended at an await
  clock,          \* number of createMessage calls issued (created_at)
  outbox,         \* what the last step emitted, in emission order
  received,       \* socket id -> ids of the new_message events it was sent
  lastAct,        \* the handler step that ran last
  lastStore,      \* the last write to public.messages and what it changed
  handles         \* <<user, handle>> pairs added and not removed since

vars == << socks, activeUsers, typingUsers, rooms, conversations, messages,
           pending, clock, outbox, received, lastAct, lastStore, handles >>

(* ----------------------------- text ------------------------------------ *)
Chars == {"a", " "}

IsWhitespace(c) == c = " "

RECURSIVE TrimStart(_)
TrimStart(s) ==
  IF s = << >> THEN << >>
  ELSE IF IsWhitespace(Head(s)) THEN TrimStart(Tail(s)) ELSE s

RECURSIVE TrimEnd(_)
TrimEnd(s) ==
  IF s = << >> THEN << >>
  ELSE IF IsWhitespace(s[Len(s)]) THEN TrimEnd(SubSeq(s, 1, Len(s) - 1)) ELSE s

\* String.prototype.trim
Trim(s) == TrimEnd(TrimStart(s))

Strings == UNION { [1..n -> Chars] : n \in 0..MaxTextLen }

\* The message_text of a payload: absent, or a string.
TextInputs == { [present |-> FALSE, chars |-> << >>] }
                \cup { [present |-> TRUE, chars |-> s] : s \in Strings }

NoText == [present |-> FALSE, chars |-> << >>]

SomeText == [present |-> TRUE, chars |-> << "a" >>]

\* !message_text || !message_text.trim()
TextRejectedMut(t) == ~t.present \/ t.chars = << >>
TextRejected(t) == ~t.present \/ t.chars = << >> \/ Trim(t.chars) = << >>

(* ----------------------------- rooms ----------------------------------- *)
ConversationRoom(c) == << "conversation", c >>
UserRoom(u) == << "user", u >>

Connected(sk) == { s \in Sockets : sk[s].st = "open" }

\* io.to(room): the connected sockets the adapter holds in the room
InRoom(sk, rm, room) == { s \in Connected(sk) : room \in rm[s] }

\* socket.to(room): the same without the emitting socket
InRoomExcept(sk, rm, room, self) == InRoom(sk, rm, room) \ {self}

Emit(ev, to, conv, user, msg, n) ==
  [ev |-> ev, to |-> to, conv |-> conv, user |-> user, msg |-> msg, n |-> n]

\* socket.emit: reaches the socket while it is connected
ToSelf(sk, s) == IF sk[s].st = "open" THEN {s} ELSE {}

(* ----------------------------- presence -------------------------------- *)
Has(map, k) == k \in DOMAIN map

MapSet(map, k, v) == [x \in (DOMAIN map) \cup {k} |-> IF x = k THEN v ELSE map[x]]

MapDelete(map, k) == [x \in (DOMAIN map) \ {k} |-> map[x]]

addActiveUser(au, userId, socketId) ==
  LET m == IF ~Has(au, userId) THEN MapSet(au, userId, {}) ELSE au
  IN  MapSet(m, userId, m[userId] \cup {socketId})

removeActiveUserMut(au, userId, socketId) ==
  IF Has(au, userId) THEN MapSet(au, userId, au[userId] \ {socketId}) ELSE au
removeActiveUserDropsEntry(au, userId, socketId) ==
  IF Has(au, userId) THEN MapDelete(au, userId) ELSE au
removeActiveUser(au, userId, socketId) ==
  IF Has(au, userId)
  THEN LET userSockets == au[userId] \ {socketId}
       IN  IF Cardinality(userSockets) = 0
           THEN MapDelete(au, userId)
           ELSE MapSet(au, userId, userSockets)
  ELSE au

isUserOnline(au, userId) == Has(au, userId) /\ Cardinality(au[userId]) > 0

getUserSocketIds(au, userId) == IF Has(au, userId) THEN au[userId] ELSE {}

addTypingUser(tu, conversationId, userId) ==
  LET m == IF ~Has(tu, conversationId) THEN MapSet(tu, conversationId, {}) ELSE tu
  IN  MapSet(m, conversationId, m[conversationId] \cup {userId})

removeTypingUser(tu, conversationId, userId) ==
  IF Has(tu, conversationId)
  THEN LET typing == tu[conversationId] \ {userId}
       IN  IF Cardinality(typing) = 0
           THEN MapDelete(tu, conversationId)
           ELSE MapSet(tu, conversationId, typing)
  ELSE tu

getTypingUsers(tu, conversationId) ==
  IF Has(tu, conversationId) THEN tu[conversationId] ELSE {}

(* ----------------------------- store ----------------------------------- *)
\* getConversationById: the row with this id that userId takes part in
ConversationForMut(cs, conversationId, userId) ==
  { c \in cs : c.id = conversationId }
ConversationFor(cs, conversationId, userId) ==
  { c \in cs : /\ c.id = conversationId
               /\ (c.student_id = userId \/ c.counsellor_id = userId) }

\* the rows markMessagesAsRead selects: .eq conversation_id, receiver_id, is_read
UnreadInAnyConversation(ms, conversationId, userId) ==
  { i \in 1..Len(ms) : /\ ms[i].receiver_id = userId
                       /\ ms[i].is_read = FALSE }
UnreadInAlsoRead(ms, conversationId, userId) ==
  { i \in 1..Len(ms) : /\ ms[i].conversation_id = conversationId
                       /\ ms[i].receiver_id = userId }
UnreadIn(ms, conversationId, userId) ==
  { i \in 1..Len(ms) : /\ ms[i].conversation_id = conversationId
                       /\ ms[i].receiver_id = userId
                       /\ ms[i].is_read = FALSE }

\* the update of markMessagesAsRead with the read_at trigger
MarkReadRows(ms, conversationId, userId) ==
  [i \in 1..Len(ms) |->
     IF i \in UnreadIn(ms, conversationId, userId)
     THEN [ms[i] EXCEPT !.is_read = TRUE, !.read_at = "set"]
     ELSE ms[i]]

\* getUnreadMessageCount
getUnreadMessageCountAlsoRead(ms, userId) ==
  Cardinality({ i \in 1..Len(ms) : ms[i].receiver_id = userId })
getUnreadMessageCount(ms, userId) ==
  Cardinality({ i \in 1..Len(ms) : ms[i].receiver_id = userId /\ ms[i].is_read = FALSE })

\* the constraints of public.messages an insert has to meet
InsertAllowed(cs, conversationId, senderId, receiverId) ==
  /\ \E c \in cs : c.id = conversationId
  /\ receiverId \in Users
  /\ senderId # receiverId

NewMessage(ms, conversationId, senderId, receiverId, text, createdAt) ==
  [id |-> Len(ms) + 1, conversation_id |-> conversationId,
   sender_id |-> senderId, receiver_id |-> receiverId, message_text |-> text,
   is_read |-> FALSE, read_at |-> "null", created_at |-> createdAt]

(* ----------------------------- initial state --------------------------- *)
Act(op, s, u, c, r, m, n, ok) ==
  [op |-> op, sock |-> s, user |-> u, conv |-> c, receiver |-> r,
   msg |-> m, n |-> n, ok |-> ok, text |-> NoText]

NoAct == Act("none", 0, NoUser, BogusConv, NoUser, NoMsg, 0, TRUE)

\* The last write to public.messages: the operation, the conversation and
\* the receiver or reader it concerns, the rows it wrote, that identity's
\* unread total before and after it and its unread rows in the conversation
\* before it; prev is the same of the write before.
NoPrev ==
  [op |-> "none", conv |-> BogusConv, user |-> NoUser, n |-> 0, before |-> 0,
   after |-> 0, inConv |-> 0]

NoStore ==
  [op |-> "none", conv |-> BogusConv, user |-> NoUser, n |-> 0, before |-> 0,
   after |-> 0, inConv |-> 0, prev |-> NoPrev]

Summary(st) ==
  [op |-> st.op, conv |-> st.conv, user |-> st.user, n |-> st.n,
   before |-> st.before, after |-> st.after, inConv |-> st.inConv]

\* rows of ms in conversation c addressed to u and not read
UnreadRows(ms, c, u) ==
  { i \in 1..Len(ms) : ms[i].conversation_id = c /\ ms[i].receiver_id = u
                       /\ ~ms[i].is_read }

\* a handler invocation suspended at an await
Invocation(kind, pc, s, u, c, r, text, createdAt, m) ==
  [kind |-> kind, pc |-> pc, sock |-> s, user |-> u, conv |-> c,
   receiver |-> r, text |-> text, created_at |-> createdAt, msg |-> m]

Init ==
  /\ socks = [s \in Sockets |-> [st |-> "fresh", user |-> NoUser]]
  /\ activeUsers = << >>
  /\ typingUsers = << >>
  /\ rooms = [s \in Sockets |-> {}]
  /\ conversations = InitConversations
  /\ messages = << >>
  /\ pending = {}
  /\ clock = 0
  /\ outbox = << >>
  /\ received = [s \in Sockets |-> << >>]
  /\ lastAct = NoAct
  /\ lastStore = NoStore
  /\ handles = {}

(* ----------------------------- connection ------------------------------ *)
\* io.on('connection'): a socket the auth middleware let through
Connect(s, u) ==
  /\ socks[s].st = "fresh"
  /\ socks' = [socks EXCEPT ![s] = [st |-> "open", user |-> u]]
  /\ activeUsers' = addActiveUser(activeUsers, u, s)
  /\ handles' = handles \cup {<< u, s >>}
  /\ rooms' = [rooms EXCEPT ![s] = {UserRoom(u)}]
  /\ outbox' = << Emit("online_status", Connected(socks') \ {s}, BogusConv, u, NoMsg, 1) >>
  /\ lastAct' = Act("connect", s, u, BogusConv, NoUser, NoMsg, 0, TRUE)
  /\ UNCHANGED << typingUsers, conversations, messages, pending, clock,
                  received, lastStore >>

\* socket.on('disconnect'): socket.io has already taken the socket out of
\* the namespace and of every room when the handler runs
Disconnect(s) ==
  /\ socks[s].st = "open"
  /\ LET u == socks[s].user IN
     /\ socks' = [socks EXCEPT ![s].st = "closed"]
     /\ rooms' = [rooms EXCEPT ![s] = {}]
     /\ activeUsers' = removeActiveUser(activeUsers, u, s)
     /\ handles' = handles \ {<< u, s >>}
     /\ outbox' = IF ~isUserOnline(activeUsers', u)
                  THEN << Emit("user_offline", Connected(socks'), BogusConv, u, NoMsg, 0) >>
                  ELSE << >>
     /\ lastAct' = Act("disconnect", s, u, BogusConv, NoUser, NoMsg, 0, TRUE)
  /\ UNCHANGED << typingUsers, conversations, messages, pending, clock,
                  received, lastStore >>

(* ----------------------------- typing ---------------------------------- *)
\* socket.on('typing')
Typing(s, c) ==
  /\ socks[s].st = "open"
  /\ LET u == socks[s].user IN
     /\ typingUsers' = addTypingUser(typingUsers, c, u)
     /\ outbox' = << Emit("user_typing", InRoomExcept(socks, rooms, ConversationRoom(c), s),
                          c, u, NoMsg, 0) >>
     /\ lastAct' = Act("typing", s, u, c, NoUser, NoMsg, 0, TRUE)
  /\ UNCHANGED << socks, activeUsers, rooms, conversations, messages, pending,
                  clock, received, lastStore, handles >>

\* socket.on('stop_typing')
StopTyping(s, c) ==
  /\ socks[s].st = "open"
  /\ LET u == socks[s].user IN
     /\ typingUsers' = removeTypingUser(typingUsers, c, u)
     /\ outbox' = << Emit("user_stopped_typing",
                          InRoomExcept(socks, rooms, ConversationRoom(c), s),
                          c, u, NoMsg, 0) >>
     /\ lastAct' = Act("stop_typing", s, u, c, NoUser, NoMsg, 0, TRUE)
  /\ UNCHANGED << socks, activeUsers, rooms, conversations, messages, pending,
                  clock, received, lastStore, handles >>

(* ----------------------------- rooms ----------------------------------- *)
\* socket.on('leave_conversation'); lastAct.n tells whether the identity
\* was in the typing set
LeaveConversationKeepsTyping(s, c) ==
  /\ socks[s].st = "open"
  /\ LET u == socks[s].user IN
     /\ rooms' = [rooms EXCEPT ![s] = @ \ {ConversationRoom(c)}]
     /\ outbox' = << Emit("user_stopped_typing",
                          InRoomExcept(socks, rooms', ConversationRoom(c), s),
                          c, u, NoMsg, 0) >>
     /\ lastAct' = Act("leave_conversation", s, u, c, NoUser, NoMsg,
                       IF u \in getTypingUsers(typingUsers, c) THEN 1 ELSE 0, TRUE)
  /\ UNCHANGED << socks, activeUsers, typingUsers, conversations, messages, pending,
                  clock, received, lastStore, handles >>
LeaveConversation(s, c) ==
  /\ socks[s].st = "open"
  /\ LET u == socks[s].user IN
     /\ rooms' = [rooms EXCEPT ![s] = @ \ {ConversationRoom(c)}]
     /\ typingUsers' = removeTypingUser(typingUsers, c, u)
     /\ outbox' = << Emit("user_stopped_typing",
                          InRoomExcept(socks, rooms', ConversationRoom(c), s),
                          c, u, NoMsg, 0) >>
     /\ lastAct' = Act("leave_conversation", s, u, c, NoUser, NoMsg,
                       IF u \in getTypingUsers(typingUsers, c) THEN 1 ELSE 0, TRUE)
  /\ UNCHANGED << socks, activeUsers, conversations, messages, pending, clock,
                  received, lastStore, handles >>

\* join_conversation and mark_as_read invocations in flight are bounded
CanSuspend(inv) ==
  /\ Cardinality({q \in pending : q.kind # "send"}) < MaxPending
  /\ inv \notin pending

\* socket.on('join_conversation') up to the await of getConversationById
JoinConversation(s, c) ==
  /\ socks[s].st = "open"
  /\ LET inv == Invocation("join", "lookup", s, socks[s].user, c, NoUser, << >>, 0, NoMsg) IN
     /\ CanSuspend(inv)
     /\ pending' = pending \cup {inv}
     /\ outbox' = << >>
     /\ lastAct' = Act("join_conversation", s, socks[s].user, c, NoUser, NoMsg, 0, TRUE)
  /\ UNCHANGED << socks, activeUsers, typingUsers, rooms, conversations,
                  messages, clock, received, lastStore, handles >>

\* getConversationById resolves: error, or socket.join and the await of
\* markMessagesAsRead; lastAct.n tells whether the socket was in the room
\* before socket.join
JoinLookupDone(p, fail) ==
  /\ p \in pending /\ p.kind = "join" /\ p.pc = "lookup"
  /\ LET found == ConversationFor(conversations, p.conv, p.user) IN
     IF fail \/ found = {}
     THEN /\ pending' = pending \ {p}
          /\ outbox' = << Emit("error", ToSelf(socks, p.sock), BogusConv, NoUser, NoMsg, 0) >>
          /\ lastAct' = Act("join_lookup", p.sock, p.user, p.conv, NoUser, NoMsg, 0, FALSE)
          /\ UNCHANGED rooms
     ELSE /\ pending' = (pending \ {p}) \cup {[p EXCEPT !.pc = "mark"]}
          /\ rooms' = [rooms EXCEPT ![p.sock] = @ \cup {ConversationRoom(p.conv)}]
          /\ outbox' = << >>
          /\ lastAct' = Act("join_lookup", p.sock, p.user, p.conv, NoUser, NoMsg,
                            IF ConversationRoom(p.conv) \in rooms[p.sock] THEN 1 ELSE 0, TRUE)
  /\ UNCHANGED << socks, activeUsers, typingUsers, conversations, messages,
                  clock, received, lastStore, handles >>

\* what a successful markMessagesAsRead(conversationId, userId) records
MarkStore(ms, conversationId, userId) ==
  [op |-> "markRead", conv |-> conversationId, user |-> userId,
   n |-> Cardinality(UnreadIn(ms, conversationId, userId)),
   before |-> getUnreadMessageCount(ms, userId),
   after |-> getUnreadMessageCount(MarkReadRows(ms, conversationId, userId), userId),
   inConv |-> Cardinality(UnreadRows(ms, conversationId, userId)),
   prev |-> Summary(lastStore)]

OtherUser(conv, userId) ==
  IF conv.student_id = userId THEN conv.counsellor_id ELSE conv.student_id

\* markMessagesAsRead resolves in join_conversation; its error is not looked at
JoinMarkDone(p, fail) ==
  /\ p \in pending /\ p.kind = "join" /\ p.pc = "mark"
  /\ pending' = pending \ {p}
  /\ IF fail
     THEN UNCHANGED << messages, lastStore >>
     ELSE /\ messages' = MarkReadRows(messages, p.conv, p.user)
          /\ lastStore' = MarkStore(messages, p.conv, p.user)
  /\ LET conv == CHOOSE c \in conversations : c.id = p.conv
         otherUserId == OtherUser(conv, p.user) IN
     outbox' = << Emit("joined_conversation", ToSelf(socks, p.sock), p.conv, NoUser, NoMsg, 0),
                  Emit("messages_read", InRoom(socks, rooms, UserRoom(otherUserId)),
                       p.conv, p.user, NoMsg, -1),
                  Emit("user_online_status", ToSelf(socks, p.sock), p.conv, otherUserId,
                       NoMsg, IF isUserOnline(activeUsers, otherUserId) THEN 1 ELSE 0) >>
  /\ lastAct' = Act("join_mark", p.sock, p.user, p.conv, NoUser, NoMsg,
                    IF fail THEN 0 ELSE Cardinality(UnreadIn(messages, p.conv, p.user)),
                    ~fail)
  /\ UNCHANGED << socks, activeUsers, typingUsers, rooms, conversations, clock,
                  received, handles >>

(* ----------------------------- read receipts --------------------------- *)
\* socket.on('mark_as_read') up to the await of markMessagesAsRead
MarkAsRead(s, c) ==
  /\ socks[s].st = "open"
  /\ LET inv == Invocation("mark", "update", s, socks[s].user, c, NoUser, << >>, 0, NoMsg) IN
     /\ CanSuspend(inv)
     /\ pending' = pending \cup {inv}
     /\ outbox' = << >>
     /\ lastAct' = Act("mark_as_read", s, socks[s].user, c, NoUser, NoMsg, 0, TRUE)
  /\ UNCHANGED << socks, activeUsers, typingUsers, rooms, conversations,
                  messages, clock, received, lastStore, handles >>

\* markMessagesAsRead resolves in mark_as_read
MarkDone(p, fail) ==
  /\ p \in pending /\ p.kind = "mark" /\ p.pc = "update"
  /\ pending' = pending \ {p}
  /\ IF fail
     THEN /\ outbox' = << >>
          /\ lastAct' = Act("mark_done", p.sock, p.user, p.conv, NoUser, NoMsg, 0, FALSE)
          /\ UNCHANGED << messages, lastStore >>
     ELSE /\ messages' = MarkReadRows(messages, p.conv, p.user)
          /\ lastStore' = MarkStore(messages, p.conv, p.user)
          /\ outbox' = << Emit("messages_read",
                               InRoomExcept(socks, rooms, ConversationRoom(p.conv), p.sock),
                               p.conv, p.user, NoMsg,
                               Cardinality(UnreadIn(messages, p.conv, p.user))) >>
          /\ lastAct' = Act("mark_done", p.sock, p.user, p.conv, NoUser, NoMsg,
                            Cardinality(UnreadIn(messages, p.conv, p.user)), TRUE)
  /\ UNCHANGED << socks, activeUsers, typingUsers, rooms, conversations, clock,
                  received, handles >>

(* ----------------------------- messages -------------------------------- *)
\* socket.on('send_message') up to the await of createMessage
SendMessage(s, c, r, t) ==
  /\ socks[s].st = "open"
  /\ LET u == socks[s].user IN
     IF TextRejected(t)
     THEN /\ outbox' = << Emit("error", {s}, BogusConv, NoUser, NoMsg, 0) >>
          /\ lastAct' = [Act("send_message", s, u, c, r, NoMsg, 0, FALSE) EXCEPT !.text = t]
          /\ UNCHANGED << pending, clock >>
     ELSE /\ clock < MaxMsgs
          /\ pending' = pending \cup
                {Invocation("send", "insert", s, u, c, r, Trim(t.chars), clock + 1, NoMsg)}
          /\ clock' = clock + 1
          /\ outbox' = << >>
          /\ lastAct' = [Act("send_message", s, u, c, r, NoMsg, 0, TRUE) EXCEPT !.text = t]
  /\ UNCHANGED << socks, activeUsers, typingUsers, rooms, conversations,
                  messages, received, lastStore, handles >>

\* the insert of createMessage resolves: error to the sender, or the row
\* exists and createMessage awaits the sender's profile
SendInsertDoneIgnoringError(p, fail) ==
  /\ p \in pending /\ p.kind = "send" /\ p.pc = "insert"
  /\ IF fail \/ ~InsertAllowed(conversations, p.conv, p.user, p.receiver)
     THEN /\ pending' = (pending \ {p}) \cup {[p EXCEPT !.pc = "profile"]}
          /\ outbox' = << >>
          /\ lastAct' = Act("send_insert", p.sock, p.user, p.conv, p.receiver, NoMsg, 0, FALSE)
          /\ UNCHANGED << messages, lastStore >>
     ELSE LET row == NewMessage(messages, p.conv, p.user, p.receiver, p.text, p.created_at) IN
          /\ messages' = Append(messages, row)
          /\ pending' = (pending \ {p}) \cup {[p EXCEPT !.pc = "profile", !.msg = row.id]}
          /\ outbox' = << >>
          /\ lastAct' = Act("send_insert", p.sock, p.user, p.conv, p.receiver, row.id, 0, TRUE)
          /\ lastStore' =
               [op |-> "insert", conv |-> p.conv, user |-> p.receiver, n |-> 1,
                before |-> getUnreadMessageCount(messages, p.receiver),
                after |-> getUnreadMessageCount(messages', p.receiver),
                inConv |-> Cardinality(UnreadRows(messages, p.conv, p.receiver)),
                prev |-> Summary(lastStore)]
  /\ UNCHANGED << socks, activeUsers, typingUsers, rooms, conversations, clock,
                  received, handles >>
SendInsertDone(p, fail) ==
  /\ p \in pending /\ p.kind = "send" /\ p.pc = "insert"
  /\ IF fail \/ ~InsertAllowed(conversations, p.conv, p.user, p.receiver)
     THEN /\ pending' = pending \ {p}
          /\ outbox' = << Emit("error", ToSelf(socks, p.sock), BogusConv, NoUser, NoMsg, 0) >>
          /\ lastAct' = Act("send_insert", p.sock, p.user, p.conv, p.receiver, NoMsg, 0, FALSE)
          /\ UNCHANGED << messages, lastStore >>
     ELSE LET row == NewMessage(messages, p.conv, p.user, p.receiver, p.text, p.created_at) IN
          /\ messages' = Append(messages, row)
          /\ pending' = (pending \ {p}) \cup {[p EXCEPT !.pc = "profile", !.msg = row.id]}
          /\ outbox' = << >>
          /\ lastAct' = Act("send_insert", p.sock, p.user, p.conv, p.receiver, row.id, 0, TRUE)
          /\ lastStore' =
               [op |-> "insert", conv |-> p.conv, user |-> p.receiver, n |-> 1,
                before |-> getUnreadMessageCount(messages, p.receiver),
                after |-> getUnreadMessageCount(messages', p.receiver),
                inConv |-> Cardinality(UnreadRows(messages, p.conv, p.receiver)),
                prev |-> Summary(lastStore)]
  /\ UNCHANGED << socks, activeUsers, typingUsers, rooms, conversations, clock,
                  received, handles >>

\* what send_message emits once createMessage has returned the message
SendEmitsSocketTo(sk, rm, p) ==
  << Emit("user_stopped_typing", InRoom(sk, rm, ConversationRoom(p.conv)),
          p.conv, p.user, NoMsg, 0),
     Emit("new_message", InRoomExcept(sk, rm, ConversationRoom(p.conv), p.sock),
          p.conv, p.user, p.msg, 0),
     Emit("new_message_notification", InRoom(sk, rm, UserRoom(p.receiver)),
          p.conv, p.user, p.msg, 0) >>
SendEmitsRoomOnly(sk, rm, p) ==
  << Emit("user_stopped_typing", InRoom(sk, rm, ConversationRoom(p.conv)),
          p.conv, p.user, NoMsg, 0),
     Emit("new_message", InRoom(sk, rm, ConversationRoom(p.conv)),
          p.conv, p.user, p.msg, 0),
     Emit("new_message_notification", InRoom(sk, rm, ConversationRoom(p.conv)),
          p.conv, p.user, p.msg, 0) >>
SendEmitsMessageFirst(sk, rm, p) ==
  << Emit("new_message", InRoom(sk, rm, ConversationRoom(p.conv)),
          p.conv, p.user, p.msg, 0),
     Emit("user_stopped_typing", InRoom(sk, rm, ConversationRoom(p.conv)),
          p.conv, p.user, NoMsg, 0),
     Emit("new_message_notification", InRoom(sk, rm, UserRoom(p.receiver)),
          p.conv, p.user, p.msg, 0) >>
SendEmits(sk, rm, p) ==
  << Emit("user_stopped_typing", InRoom(sk, rm, ConversationRoom(p.conv)),
          p.conv, p.user, NoMsg, 0),
     Emit("new_message", InRoom(sk, rm, ConversationRoom(p.conv)),
          p.conv, p.user, p.msg, 0),
     Emit("new_message_notification", InRoom(sk, rm, UserRoom(p.receiver)),
          p.conv, p.user, p.msg, 0) >>

\* the profile lookup of createMessage resolves and send_message goes on;
\* lastAct.n tells whether the sender was in the typing set
SendProfileDone(p) ==
  /\ p \in pending /\ p.kind = "send" /\ p.pc = "profile"
  /\ pending' = pending \ {p}
  /\ typingUsers' = removeTypingUser(typingUsers, p.conv, p.user)
  /\ outbox' = SendEmits(socks, rooms, p)
  /\ received' = [s \in Sockets |->
                    IF s \in InRoom(socks, rooms, ConversationRoom(p.conv))
                    THEN Append(received[s], p.msg) ELSE received[s]]
  /\ lastAct' = Act("send_done", p.sock, p.user, p.conv, p.receiver, p.msg,
                    IF p.user \in getTypingUsers(typingUsers, p.conv) THEN 1 ELSE 0, TRUE)
  /\ UNCHANGED << socks, activeUsers, rooms, conversations, messages, clock,
                  lastStore, handles >>

(* ----------------------------- specifications ------------------------ *)
\* Which identity a socket handle connects as.  In the chat scenarios the
\* student has two devices and every counsellor one or more; in the store
\* scenarios every identity has one device.
Owner(s) == IF s <= 2 THEN 1 ELSE 2 + ((s - 3) % (NumUsers - 1))

ChatDevices == { << s, Owner(s) >> : s \in Sockets }
StoreDevices == { << s, s >> : s \in Sockets \cap Users }

Idle == pending = {}

\* The state after the devices of D have connected, in any order.
InitConnected(D) ==
  /\ socks = [s \in Sockets |->
                IF \E d \in D : d[1] = s
                THEN [st |-> "open", user |-> (CHOOSE d \in D : d[1] = s)[2]]
                ELSE [st |-> "fresh", user |-> NoUser]]
  /\ activeUsers = [u \in { d[2] : d \in D } |-> { d[1] : d \in { e \in D : e[2] = u } }]
  /\ handles = { << d[2], d[1] >> : d \in D }
  /\ rooms = [s \in Sockets |-> { UserRoom(d[2]) : d \in { e \in D : e[1] = s } }]
  /\ typingUsers = << >>
  /\ conversations = InitConversations
  /\ messages = << >>
  /\ pending = {}
  /\ clock = 0
  /\ outbox = << >>
  /\ received = [s \in Sockets |-> << >>]
  /\ lastAct = NoAct
  /\ lastStore = NoStore

\* Rooms and presence: connections come and go, no message is sent.
NextRooms ==
  \/ \E d \in ChatDevices : Connect(d[1], d[2])
  \/ \E s \in Sockets : Disconnect(s)
  \/ \E s \in Sockets, c \in ConvIds : LeaveConversation(s, c)
  \/ \E s \in Sockets, c \in ClientConvIds : JoinConversation(s, c)
  \/ \E p \in pending, fail \in BOOLEAN : JoinLookupDone(p, fail)
  \/ \E p \in pending, fail \in BOOLEAN : JoinMarkDone(p, fail)

SpecRooms == Init /\ [][NextRooms]_vars

\* The message store: every identity connected on one device, one handler
\* at a time.
NextStore ==
  \/ \E s \in Sockets, c \in ConvIds : Idle /\ MarkAsRead(s, c)
  \/ \E p \in pending, fail \in BOOLEAN : MarkDone(p, fail)
  \/ \E s \in Sockets, c \in ConvIds, r \in Users :
        Idle /\ SendMessage(s, c, r, SomeText)
  \/ \E p \in pending, fail \in BOOLEAN : SendInsertDone(p, fail)
  \/ \E p \in pending : SendProfileDone(p)

SpecStore == InitConnected(StoreDevices) /\ [][NextStore]_vars

\* The state after the devices of D have connected and those that take part
\* in conversation c have joined its room.
InitJoined(D, c) ==
  /\ socks = [s \in Sockets |->
                IF \E d \in D : d[1] = s
                THEN [st |-> "open", user |-> (CHOOSE d \in D : d[1] = s)[2]]
                ELSE [st |-> "fresh", user |-> NoUser]]
  /\ activeUsers = [u \in { d[2] : d \in D } |-> { d[1] : d \in { e \in D : e[2] = u } }]
  /\ handles = { << d[2], d[1] >> : d \in D }
  /\ rooms = [s \in Sockets |->
                UNION { IF ConversationFor(InitConversations, c, d[2]) # {}
                        THEN {UserRoom(d[2]), ConversationRoom(c)}
                        ELSE {UserRoom(d[2])} : d \in { e \in D : e[1] = s } }]
  /\ typingUsers = << >>
  /\ conversations = InitConversations
  /\ messages = << >>
  /\ pending = {}
  /\ clock = 0
  /\ outbox = << >>
  /\ received = [s \in Sockets |-> << >>]
  /\ lastAct = NoAct
  /\ lastStore = NoStore

\* Conversation 1 with the student (two devices) and counsellor 2 in its
\* room: typing and send_message, whose handlers overlap.
NextSend ==
  \/ \E s \in Sockets : Typing(s, 1)
  \/ \E s \in Sockets, r \in {1, 2}, t \in TextInputs : SendMessage(s, 1, r, t)
  \/ \E p \in pending, fail \in BOOLEAN : SendInsertDone(p, fail)
  \/ \E p \in pending : SendProfileDone(p)

SpecSend == InitJoined(ChatDevices, 1) /\ [][NextSend]_vars

\* Conversation 1 while its participants' devices join, leave and
\* disconnect: one handler at a time.
NextFanout ==
  \/ \E s \in Sockets : Disconnect(s)
  \/ \E s \in Sockets : LeaveConversation(s, 1)
  \/ \E s \in Sockets : Idle /\ JoinConversation(s, 1)
  \/ \E p \in pending, fail \in BOOLEAN : JoinLookupDone(p, fail)
  \/ \E p \in pending, fail \in BOOLEAN : JoinMarkDone(p, fail)
  \/ \E s \in Sockets, r \in {1, 2} :
        Idle /\ clock < MaxFanoutMsgs /\ SendMessage(s, 1, r, SomeText)
  \/ \E p \in pending, fail \in BOOLEAN : SendInsertDone(p, fail)
  \/ \E p \in pending : SendProfileDone(p)

SpecFanout == InitConnected(ChatDevices) /\ [][NextFanout]_vars

(* ------------------- the presence registry on its own ------------------ *)
\* addActiveUser called with any identity and any handle
RegistryAdd(u, s) ==
  /\ activeUsers' = addActiveUser(activeUsers, u, s)
  /\ handles' = handles \cup {<< u, s >>}
  /\ lastAct' = Act("addActiveUser", s, u, BogusConv, NoUser, NoMsg, 0, << u, s >> \in handles)
  /\ UNCHANGED << socks, typingUsers, rooms, conversations, messages, pending,
                  clock, outbox, received, lastStore >>

\* removeActiveUser called with any identity and any handle, known or not
RegistryRemove(u, s) ==
  /\ activeUsers' = removeActiveUser(activeUsers, u, s)
  /\ handles' = handles \ {<< u, s >>}
  /\ lastAct' = Act("removeActiveUser", s, u, BogusConv, NoUser, NoMsg, 0, << u, s >> \in handles)
  /\ UNCHANGED << socks, typingUsers, rooms, conversations, messages, pending,
                  clock, outbox, received, lastStore >>

NextRegistry ==
  \/ \E u \in Users, s \in Sockets : RegistryAdd(u, s)
  \/ \E u \in Users, s \in Sockets : RegistryRemove(u, s)

SpecRegistry == Init /\ [][NextRegistry]_vars

(* ----------------------------- handshake ------------------------------- *)
\* An identity supabase.auth knows that has no row in public.profiles.
NoProfileUser == NumUsers + 1

\* What a handshake carries: no token, a token supabase.auth.getUser turns
\* down (invalid or expired), or a token it resolves to an identity.
Credentials ==
  { [token |-> "none", user |-> NoUser], [token |-> "invalid", user |-> NoUser] }
    \cup { [token |-> "valid", user |-> u] : u \in Users \cup {NoProfileUser} }

\* Which lookup of the middleware errors or throws, if any.
FailPoints == {"none", "getUser", "profile"}

\* io.use: the error handed to next(), or the identity put in socket.user
AuthenticateWithoutProfile(cred, fail) ==
  IF cred.token = "none"
  THEN [ok |-> FALSE, user |-> NoUser, error |-> "No token provided"]
  ELSE IF cred.token # "valid" \/ fail = "getUser"
  THEN [ok |-> FALSE, user |-> NoUser, error |-> "Invalid token"]
  ELSE [ok |-> TRUE, user |-> cred.user, error |-> "none"]
Authenticate(cred, fail) ==
  IF cred.token = "none"
  THEN [ok |-> FALSE, user |-> NoUser, error |-> "No token provided"]
  ELSE IF cred.token # "valid" \/ fail = "getUser"
  THEN [ok |-> FALSE, user |-> NoUser, error |-> "Invalid token"]
  ELSE IF cred.user \notin Users \/ fail = "profile"
  THEN [ok |-> FALSE, user |-> NoUser, error |-> "User profile not found"]
  ELSE [ok |-> TRUE, user |-> cred.user, error |-> "none"]

\* A connection attempt: the middleware, then the connection handler for a
\* socket it let through.  The lookups of the middleware touch nothing the
\* handlers write, so the attempt is one step.
Handshake(s, cred, fail) ==
  LET res == Authenticate(cred, fail) IN
  IF res.ok
  THEN Connect(s, res.user)
  ELSE /\ socks[s].st = "fresh"
       /\ socks' = [socks EXCEPT ![s].st = "refused"]
       /\ outbox' = << Emit("connect_error", {s}, BogusConv, NoUser, NoMsg, 0) >>
       /\ lastAct' = [Act("refused", s, cred.user, BogusConv, NoUser, NoMsg, 0, FALSE)
                        EXCEPT !.text = [present |-> TRUE, chars |-> << res.error >>]]
       /\ UNCHANGED << activeUsers, typingUsers, rooms, conversations, messages,
                       pending, clock, received, lastStore, handles >>

\* Presence: devices of any identity connect, are refused and disconnect.
NextPresence ==
  \/ \E s \in Sockets, cred \in Credentials, fail \in FailPoints : Handshake(s, cred, fail)
  \/ \E s \in Sockets : Disconnect(s)

SpecPresence == Init /\ [][NextPresence]_vars

(* ----------------------------- typing sessions ------------------------- *)
\* Conversation 1 with its participants' devices in the room: they type,
\* stop, send and leave.
NextTyping ==
  \/ \E s \in Sockets : Typing(s, 1)
  \/ \E s \in Sockets : StopTyping(s, 1)
  \/ \E s \in Sockets : LeaveConversation(s, 1)
  \/ \E s \in Sockets, r \in {1, 2} :
        Idle /\ clock < MaxFanoutMsgs /\ SendMessage(s, 1, r, SomeText)
  \/ \E p \in pending, fail \in BOOLEAN : SendInsertDone(p, fail)
  \/ \E p \in pending : SendProfileDone(p)

\* The event loop resumes a handler whose store call has resolved; nothing
\* makes a client emit an event.
HandlersResume ==
  /\ WF_vars(\E p \in pending, fail \in BOOLEAN : SendInsertDone(p, fail))
  /\ WF_vars(\E p \in pending : SendProfileDone(p))

SpecTyping == InitJoined(ChatDevices, 1) /\ [][NextTyping]_vars /\ HandlersResume

(* ----------------------------- conversations --------------------------- *)
\* Calls of getOrCreateConversation in flight, one per caller at most.
Callers == 1..MaxCalls

\* The pairs the calls name: two that have a conversation, two that do not.
CallStudents == {1, 2}
CallCounsellors == {2, 3}

\* .eq('student_id', studentId).eq('counsellor_id', counsellorId)
ExistingConversation(cs, studentId, counsellorId) ==
  { c \in cs : c.student_id = studentId /\ c.counsellor_id = counsellorId }

\* the constraints of public.conversations an insert has to meet: the
\* profiles exist and conversations_unique_pair
ConversationInsertAllowedNoUnique(cs, studentId, counsellorId) ==
  studentId \in Users /\ counsellorId \in Users
ConversationInsertAllowed(cs, studentId, counsellorId) ==
  /\ studentId \in Users /\ counsellorId \in Users
  /\ ExistingConversation(cs, studentId, counsellorId) = {}

\* getOrCreateConversation up to the await of the select
GetOrCreateConversation(r, studentId, counsellorId) ==
  /\ \A q \in pending : ~(q.kind = "getOrCreate" /\ q.sock = r)
  /\ pending' = pending \cup
        {Invocation("getOrCreate", "select", r, studentId, BogusConv, counsellorId,
                    << >>, 0, NoMsg)}
  /\ lastAct' = Act("getOrCreateConversation", r, studentId, BogusConv, counsellorId,
                    NoMsg, 0, TRUE)
  /\ UNCHANGED << socks, activeUsers, typingUsers, rooms, conversations, messages,
                  clock, outbox, received, lastStore, handles >>

\* the select resolves: an error other than "not found" is returned, the
\* existing row is returned, or the insert is awaited.  lastAct.conv is the
\* id of the row returned, lastAct.n the store call the result comes from.
GetOrCreateSelectDone(p, fail) ==
  /\ p \in pending /\ p.kind = "getOrCreate" /\ p.pc = "select"
  /\ LET existing == ExistingConversation(conversations, p.user, p.receiver) IN
     IF fail
     THEN /\ pending' = pending \ {p}
          /\ lastAct' = Act("getOrCreate_return", p.sock, p.user, BogusConv, p.receiver,
                            NoMsg, 1, FALSE)
     ELSE IF existing # {}
     THEN /\ pending' = pending \ {p}
          /\ lastAct' = Act("getOrCreate_return", p.sock, p.user,
                            (CHOOSE c \in existing : TRUE).id, p.receiver, NoMsg, 1, TRUE)
     ELSE /\ pending' = (pending \ {p}) \cup {[p EXCEPT !.pc = "insert"]}
          /\ lastAct' = Act("getOrCreate_select", p.sock, p.user, BogusConv, p.receiver,
                            NoMsg, 1, TRUE)
  /\ UNCHANGED << socks, activeUsers, typingUsers, rooms, conversations, messages,
                  clock, outbox, received, lastStore, handles >>

\* the insert resolves: its error is returned, or the new row
GetOrCreateInsertDone(p, fail) ==
  /\ p \in pending /\ p.kind = "getOrCreate" /\ p.pc = "insert"
  /\ pending' = pending \ {p}
  /\ IF fail \/ ~ConversationInsertAllowed(conversations, p.user, p.receiver)
     THEN /\ lastAct' = Act("getOrCreate_return", p.sock, p.user, BogusConv, p.receiver,
                            NoMsg, 2, FALSE)
          /\ UNCHANGED conversations
     ELSE LET newConversation == [id |-> Cardinality(conversations) + 1,
                                  student_id |-> p.user, counsellor_id |-> p.receiver] IN
          /\ conversations' = conversations \cup {newConversation}
          /\ lastAct' = Act("getOrCreate_return", p.sock, p.user, newConversation.id,
                            p.receiver, NoMsg, 2, TRUE)
  /\ UNCHANGED << socks, activeUsers, typingUsers, rooms, messages, clock, outbox,
                  received, lastStore, handles >>

\* Callers get or create conversations, their store calls overlapping.
NextConversations ==
  \/ \E r \in Callers, st \in CallStudents, co \in CallCounsellors :
        GetOrCreateConversation(r, st, co)
  \/ \E p \in pending, fail \in BOOLEAN : GetOrCreateSelectDone(p, fail)
  \/ \E p \in pending, fail \in BOOLEAN : GetOrCreateInsertDone(p, fail)

SpecConversations == Init /\ [][NextConversations]_vars

(* ----------------------------- unread count ---------------------------- *)
\* A client emits get_unread_count: the connection handler registers no
\* listener for that event, so socket.io drops it.
GetUnreadCount(s) ==
  /\ socks[s].st = "open"
  /\ outbox' = << >>
  /\ lastAct' = Act("get_unread_count", s, socks[s].user, BogusConv, NoUser, NoMsg, 0, TRUE)
  /\ UNCHANGED << socks, activeUsers, typingUsers, rooms, conversations, messages,
                  pending, clock, received, lastStore, handles >>

\* Conversation 1: its participants send, mark read and ask for their
\* unread count, one handler at a time.
NextUnread ==
  \/ \E s \in Sockets : GetUnreadCount(s)
  \/ \E s \in Sockets : Idle /\ MarkAsRead(s, 1)
  \/ \E p \in pending, fail \in BOOLEAN : MarkDone(p, fail)
  \/ \E s \in Sockets, r \in {1, 2} : Idle /\ SendMessage(s, 1, r, SomeText)
  \/ \E p \in pending, fail \in BOOLEAN : SendInsertDone(p, fail)
  \/ \E p \in pending : SendProfileDone(p)

SpecUnread == InitConnected(StoreDevices) /\ [][NextUnread]_vars

(* ----------------------------- room events ----------------------------- *)
\* Conversation 1 with its two participants in the room and a third
\* identity connected: all of them type, stop, leave, mark read and
\* disconnect.
NextRoomEvents ==
  \/ \E s \in Sockets : Typing(s, 1)
  \/ \E s \in Sockets : StopTyping(s, 1)
  \/ \E s \in Sockets : LeaveConversation(s, 1)
  \/ \E s \in Sockets : Disconnect(s)
  \/ \E s \in Sockets : Idle /\ MarkAsRead(s, 1)
  \/ \E p \in pending, fail \in BOOLEAN : MarkDone(p, fail)

SpecRoomEvents == InitJoined(StoreDevices, 1) /\ [][NextRoomEvents]_vars

(* ----------------------------- properties ------------------------------ *)
ErrorTo(s) == << Emit("error", ToSelf(socks, s), BogusConv, NoUser, NoMsg, 0) >>

HandlesOf(u) == { s \in Sockets : << u, s >> \in handles }

\* C1: after any sequence of addActiveUser and removeActiveUser calls, with
\* any identity and any handle, an identity is online iff handles are
\* recorded for it, the handles recorded are those added and not removed,
\* and the map holds an entry for it iff that set is not empty.
C1_PresenceInvariant ==
  \A u \in Users :
    /\ isUserOnline(activeUsers, u) <=> getUserSocketIds(activeUsers, u) # {}
    /\ getUserSocketIds(activeUsers, u) = HandlesOf(u)
    /\ Has(activeUsers, u) <=> HandlesOf(u) # {}
    /\ Has(activeUsers, u) => activeUsers[u] # {}

\* a handle was removed that was the identity's last one while another
\* identity stays online on two handles
C1_Witness ==
  /\ lastAct.op = "removeActiveUser" /\ lastAct.ok
  /\ ~Has(activeUsers, lastAct.user)
  /\ \E v \in Users : Cardinality(getUserSocketIds(activeUsers, v)) = 2

NotParticipant(c, u) ==
  \E conv \in conversations :
    conv.id = c /\ conv.student_id # u /\ conv.counsellor_id # u

\* C2: join_conversation(C) from a connection of an identity that is
\* neither the student nor the counsellor of C fails with one error event
\* to the caller alone and leaves every socket's rooms as they were.
C2_JoinAuthorization ==
  [][ (lastAct'.op = "join_lookup" /\ NotParticipant(lastAct'.conv, lastAct'.user))
        => /\ ~lastAct'.ok
           /\ outbox' = << Emit("error", ToSelf(socks, lastAct'.sock),
                                BogusConv, NoUser, NoMsg, 0) >>
           /\ rooms' = rooms ]_vars

\* a counsellor's join of the other counsellor's conversation was refused
\* while the student is in that conversation's room
C2_Witness ==
  /\ lastAct.op = "join_lookup" /\ ~lastAct.ok
  /\ NotParticipant(lastAct.conv, lastAct.user)
  /\ outbox = ErrorTo(lastAct.sock) /\ outbox[1].to = {lastAct.sock}
  /\ ConversationRoom(lastAct.conv) \notin rooms[lastAct.sock]
  /\ InRoom(socks, rooms, ConversationRoom(lastAct.conv)) # {}

SendThenMark ==
  /\ lastStore.op = "markRead" /\ lastStore.prev.op = "insert"
  /\ lastStore.prev.conv = lastStore.conv /\ lastStore.prev.user = lastStore.user

\* C3 as stated: a send to B raises getUnreadMessageCount(B) by exactly one,
\* and the markMessagesAsRead(C, B) that follows returns it to its value
\* before the send.
C3_RoundTripAsStated ==
  /\ lastStore.op = "insert" => lastStore.after = lastStore.before + 1
  /\ SendThenMark => lastStore.after = lastStore.prev.before

\* C3: a send to B raises getUnreadMessageCount(B) by exactly one, and the
\* markMessagesAsRead(C, B) that follows brings it to its value before the
\* send less the messages of C that were unread for B before the send.
C3_RoundTrip ==
  /\ lastStore.op = "insert" => lastStore.after = lastStore.before + 1
  /\ SendThenMark => lastStore.after = lastStore.prev.before - lastStore.prev.inConv

\* B marks C read right after the second of two unread messages arrived
C3_Witness ==
  /\ SendThenMark /\ lastStore.prev.inConv = 1
  /\ lastStore.prev.before = 1 /\ lastStore.after = 0

MarkTwice ==
  /\ lastStore.op = "markRead" /\ lastStore.prev.op = "markRead"
  /\ lastStore.prev.conv = lastStore.conv /\ lastStore.prev.user = lastStore.user

\* C4: a markMessagesAsRead(C, reader) that follows another one with no
\* message stored in between updates no row, reports read_count 0 and
\* leaves the reader's unread total as it was.
C4_MarkReadIdempotent ==
  MarkTwice =>
    /\ lastStore.n = 0
    /\ lastStore.after = lastStore.before
    /\ (lastAct.op = "mark_done" /\ lastAct.ok)
         => (Len(outbox) = 1 /\ outbox[1].ev = "messages_read" /\ outbox[1].n = 0)

\* the second of two mark_as_read, the first of which read a message
C4_Witness ==
  /\ MarkTwice /\ lastStore.prev.n > 0
  /\ lastAct.op = "mark_done" /\ lastAct.ok

\* C5: markMessagesAsRead(C, reader) sets is_read and read_at on exactly the
\* rows of C addressed to the reader and not read, returns exactly those,
\* and leaves every other row as it was.
C5_MarkReadEffect ==
  [][ (lastAct'.op \in {"mark_done", "join_mark"} /\ lastAct'.ok)
        => /\ Len(messages') = Len(messages)
           /\ \A i \in 1..Len(messages) :
                messages'[i] =
                  IF i \in UnreadRows(messages, lastAct'.conv, lastAct'.user)
                  THEN [messages[i] EXCEPT !.is_read = TRUE, !.read_at = "set"]
                  ELSE messages[i]
           /\ lastAct'.n = Cardinality(UnreadRows(messages, lastAct'.conv, lastAct'.user)) ]_vars

\* a mark_as_read read one message and left the reader's unread message of
\* another conversation unread
C5_Witness ==
  /\ lastAct.op = "mark_done" /\ lastAct.ok /\ lastAct.n = 1
  /\ \E i \in 1..Len(messages) :
       /\ messages[i].receiver_id = lastAct.user
       /\ messages[i].conversation_id # lastAct.conv
       /\ ~messages[i].is_read /\ messages[i].read_at = "null"
  /\ \E i \in 1..Len(messages) :
       /\ messages[i].receiver_id = lastAct.user
       /\ messages[i].conversation_id = lastAct.conv
       /\ messages[i].is_read /\ messages[i].read_at = "set"

MessageById(m) == CHOOSE row \in { messages[i] : i \in 1..Len(messages) } : row.id = m

\* C6: every socket is sent the new_message events of a conversation in the
\* order the messages were stored, and those of one sender in the order
\* the sender emitted them.
C6_MessageOrdering ==
  \A s \in Sockets :
    \A i, j \in 1..Len(received[s]) :
      LET a == MessageById(received[s][i])
          b == MessageById(received[s][j])
      IN  (i < j /\ a.conversation_id = b.conversation_id)
            => /\ a.id < b.id
               /\ (a.sender_id = b.sender_id => a.created_at < b.created_at)

Stored(m) == \E i \in 1..Len(messages) : messages[i].id = m

\* C7: when the insert of send_message fails, the sender's connection alone
\* is sent an error and nothing else is emitted; every new_message and
\* new_message_notification carries a stored message.
C7_PersistThenBroadcast ==
  /\ (lastAct.op = "send_insert" /\ ~lastAct.ok) => outbox = ErrorTo(lastAct.sock)
  /\ \A k \in 1..Len(outbox) :
       outbox[k].ev \in {"new_message", "new_message_notification"} => Stored(outbox[k].msg)
  /\ \A s \in Sockets : \A k \in 1..Len(received[s]) : Stored(received[s][k])

\* an insert failed while the sender was typing in a room with other sockets
C7_Witness ==
  /\ lastAct.op = "send_insert" /\ ~lastAct.ok
  /\ outbox = ErrorTo(lastAct.sock) /\ outbox[1].to = {lastAct.sock}
  /\ lastAct.user \in getTypingUsers(typingUsers, lastAct.conv)
  /\ Cardinality(InRoom(socks, rooms, ConversationRoom(lastAct.conv))) >= 2

Blank(t) == ~t.present \/ \A k \in 1..Len(t.chars) : t.chars[k] = " "

\* C8: a send_message whose message_text is missing, empty or only
\* whitespace is answered with one error to the caller; no store call is
\* issued, no message is stored and the typing sets stay as they were.
C8_EmptyTextRejected ==
  [][ (lastAct'.op = "send_message" /\ Blank(lastAct'.text))
        => /\ outbox' = << Emit("error", {lastAct'.sock}, BogusConv, NoUser, NoMsg, 0) >>
           /\ messages' = messages
           /\ pending' = pending
           /\ typingUsers' = typingUsers ]_vars

\* a whitespace-only text was refused while its sender was typing
C8_Witness ==
  /\ lastAct.op = "send_message" /\ lastAct.text.present
  /\ Len(lastAct.text.chars) > 0 /\ Blank(lastAct.text)
  /\ outbox = ErrorTo(lastAct.sock)
  /\ lastAct.user \in getTypingUsers(typingUsers, lastAct.conv)

LiveSocketsOf(u) == { s \in Sockets : socks[s].st = "open" /\ socks[s].user = u }

EmittedTo(ev, m, s) ==
  Cardinality({ k \in 1..Len(outbox) :
                  outbox[k].ev = ev /\ outbox[k].msg = m /\ s \in outbox[k].to })

\* C9: when send_message from A to B completes, new_message_notification
\* with the message and A as sender reaches every live connection of B,
\* in the conversation's room or not; every live connection is in its
\* identity's personal room.
C9_PersonalNotification ==
  /\ \A s \in Sockets : socks[s].st = "open" => UserRoom(socks[s].user) \in rooms[s]
  /\ lastAct.op = "send_done" =>
       /\ \A s \in LiveSocketsOf(lastAct.receiver) :
            EmittedTo("new_message_notification", lastAct.msg, s) >= 1
       /\ \A k \in 1..Len(outbox) :
            outbox[k].ev = "new_message_notification"
              => /\ outbox[k].user = lastAct.user
                 /\ outbox[k].conv = lastAct.conv
                 /\ outbox[k].to = LiveSocketsOf(lastAct.receiver)

\* the receiver's two devices were notified while neither is in the room
C9_Witness ==
  /\ lastAct.op = "send_done"
  /\ Cardinality(LiveSocketsOf(lastAct.receiver)) = 2
  /\ InRoom(socks, rooms, ConversationRoom(lastAct.conv)) \cap LiveSocketsOf(lastAct.receiver) = {}
  /\ \A s \in LiveSocketsOf(lastAct.receiver) :
       EmittedTo("new_message_notification", lastAct.msg, s) = 1

\* C10: when send_message into C completes, new_message is emitted exactly
\* once to every live socket in room conversation:C, the sender's own
\* devices included, and to no other socket.
C10_RoomFanout ==
  lastAct.op = "send_done" =>
    \A s \in Sockets :
      EmittedTo("new_message", lastAct.msg, s) =
        (IF socks[s].st = "open" /\ ConversationRoom(lastAct.conv) \in rooms[s] THEN 1 ELSE 0)

\* both devices of the sender are in the room and are sent the message,
\* the receiver's device is not and is not
C10_Witness ==
  /\ lastAct.op = "send_done"
  /\ Cardinality(LiveSocketsOf(lastAct.user)) = 2
  /\ \A s \in LiveSocketsOf(lastAct.user) :
       /\ ConversationRoom(lastAct.conv) \in rooms[s]
       /\ EmittedTo("new_message", lastAct.msg, s) = 1
  /\ \E s \in LiveSocketsOf(lastAct.receiver) :
       /\ ConversationRoom(lastAct.conv) \notin rooms[s]
       /\ EmittedTo("new_message", lastAct.msg, s) = 0

Refused(sk) == { s \in Sockets : sk[s].st = "refused" }

OnlineEmitted(ob, u) ==
  \E k \in 1..Len(ob) : ob[k].ev = "online_status" /\ ob[k].user = u

\* C15: a handshake with no token, with a token that is turned down or
\* with an identity that has no profile (or whose lookup fails) is refused
\* with an error to the caller alone: no handle is added to activeUsers,
\* the socket joins no room and no online_status is emitted; only
\* identities with a profile ever hold a connection.
C15_RefusedConnection ==
  [][ /\ \A s \in Sockets : socks'[s].st = "open" => socks'[s].user \in Users
      /\ DOMAIN activeUsers' \subseteq Users
      /\ \A s \in Refused(socks') :
           /\ rooms'[s] = {}
           /\ \A u \in DOMAIN activeUsers' : s \notin activeUsers'[u]
      /\ (lastAct'.op = "refused")
           => /\ socks'[lastAct'.sock].st = "refused"
              /\ activeUsers' = activeUsers
              /\ rooms' = rooms
              /\ outbox' = << Emit("connect_error", {lastAct'.sock},
                                   BogusConv, NoUser, NoMsg, 0) >> ]_vars

\* an identity without a profile was refused while another device was
\* connected to hear an online_status, and one was refused without a token
C15_Witness ==
  /\ lastAct.op = "refused" /\ lastAct.user = NoProfileUser
  /\ lastAct.text.chars = << "User profile not found" >>
  /\ Connected(socks) # {}
  /\ Cardinality(Refused(socks)) = 2
  /\ activeUsers # << >>
  /\ \A u \in DOMAIN activeUsers : activeUsers[u] \cap Refused(socks) = {}

OfflineEmitted(ob, u) ==
  \E k \in 1..Len(ob) : ob[k].ev = "user_offline" /\ ob[k].user = u

\* C16: when a connection of identity I disconnects, user_offline for I is
\* emitted (to every connected socket) iff I has no connection left; no
\* user_offline for I is emitted while I has a live connection.
C16_OfflineOnLastDisconnect ==
  /\ lastAct.op = "disconnect" =>
       (OfflineEmitted(outbox, lastAct.user) <=> LiveSocketsOf(lastAct.user) = {})
  /\ \A k \in 1..Len(outbox) :
       outbox[k].ev = "user_offline"
         => /\ LiveSocketsOf(outbox[k].user) = {}
            /\ ~isUserOnline(activeUsers, outbox[k].user)
            /\ outbox[k].to = Connected(socks)

\* one device of an identity closed while its other device and a device of
\* another identity stay connected: nothing was emitted
C16_Witness ==
  /\ lastAct.op = "disconnect"
  /\ LiveSocketsOf(lastAct.user) # {}
  /\ \E s \in Connected(socks) : socks[s].user # lastAct.user
  /\ outbox = << >>

\* C17: online_status for identity I is emitted when a connection of I is
\* added iff it is I's only live connection; a further connection of an
\* identity that is online already emits none.
C17_OnlineOnFirstConnection ==
  lastAct.op = "connect" =>
    (OnlineEmitted(outbox, lastAct.user) <=> Cardinality(LiveSocketsOf(lastAct.user)) = 1)

\* rows of ms addressed to u and not read
UnreadTotal(ms, u) ==
  Cardinality({ i \in 1..Len(ms) : ms[i].receiver_id = u /\ ~ms[i].is_read })

UnreadPushTo(u) ==
  \E k \in 1..Len(outbox) :
    /\ outbox[k].ev = "unread_count_updated"
    /\ outbox[k].to = LiveSocketsOf(u)
    /\ outbox[k].n = UnreadTotal(messages, u)

\* C11: when a send_message from A to B completes, unread_count_updated is
\* emitted to B's connections and carries B's unread total, the new message
\* included.
C11_UnreadPushAfterSend ==
  lastAct.op = "send_done" => UnreadPushTo(lastAct.receiver)

\* C12: when the markMessagesAsRead of a mark_as_read or of a
\* join_conversation by reader R has resolved, unread_count_updated with
\* R's recomputed unread total is emitted to R's connections, also when no
\* row was updated.
C12_UnreadPushAfterMarkRead ==
  (lastAct.op \in {"mark_done", "join_mark"} /\ lastAct.ok) => UnreadPushTo(lastAct.user)

ConversationById(c) == CHOOSE conv \in conversations : conv.id = c

\* C13: when reader B has marked n >= 1 messages of conversation C read, by
\* join_conversation or by mark_as_read, a messages_read event with
\* reader_id = B and read_count = n reaches every live connection of the
\* other participant, in the conversation's room or not.
C13_ReadReceipt ==
  (lastAct.op \in {"mark_done", "join_mark"} /\ lastAct.ok /\ lastAct.n >= 1) =>
    \E k \in 1..Len(outbox) :
      /\ outbox[k].ev = "messages_read"
      /\ outbox[k].conv = lastAct.conv
      /\ outbox[k].user = lastAct.user
      /\ outbox[k].n = lastAct.n
      /\ LiveSocketsOf(OtherUser(ConversationById(lastAct.conv), lastAct.user))
           \subseteq outbox[k].to

Participants(c) ==
  { conv.student_id : conv \in { x \in conversations : x.id = c } }
    \cup { conv.counsellor_id : conv \in { x \in conversations : x.id = c } }

\* C18: every stored message has a sender different from its receiver,
\* both of them the two participants of its conversation; a send_message
\* from an identity outside the conversation, or to a receiver that is not
\* the other participant, stores nothing and broadcasts nothing.
C18_ParticipantInvariant ==
  /\ \A i \in 1..Len(messages) :
       /\ messages[i].sender_id # messages[i].receiver_id
       /\ {messages[i].sender_id, messages[i].receiver_id}
            = Participants(messages[i].conversation_id)
  /\ \A k \in 1..Len(outbox) :
       outbox[k].ev \in {"new_message", "new_message_notification"}
         => {lastAct.user, lastAct.receiver} = Participants(outbox[k].conv)

\* a typing, stop_typing, leave_conversation or send_message event arrives
ClientEvent ==
  \E s \in Sockets :
    \/ Typing(s, 1)
    \/ StopTyping(s, 1)
    \/ LeaveConversation(s, 1)
    \/ \E r \in Users : SendMessage(s, 1, r, SomeText)

\* C14: once the clients emit no further typing, stop_typing, send_message
\* or leave_conversation event, every identity still in a typing set is
\* eventually removed from it (the inactivity timer), so the typing sets
\* end up empty with no further client action.
C14_TypingAutoExpiry ==
  ([]<><<ClientEvent>>_vars) \/ <>[](typingUsers = << >>)

SamePair(a, b) == a.student_id = b.student_id /\ a.counsellor_id = b.counsellor_id

\* C19: whatever the interleaving of getOrCreateConversation calls, no two
\* rows of public.conversations have the same (student_id, counsellor_id);
\* a call whose pair has a row returns without adding a row and, unless a
\* store call of its own fails, returns that row.
C19_ConversationUniqueness ==
  [][ /\ \A a, b \in conversations' : SamePair(a, b) => a = b
      /\ \A a, b \in conversations' : a.id = b.id => a = b
      /\ (lastAct'.op = "getOrCreate_return"
            /\ ExistingConversation(conversations, lastAct'.user, lastAct'.receiver) # {})
           => /\ conversations' = conversations
              /\ lastAct'.ok =>
                   \E c \in ExistingConversation(conversations, lastAct'.user,
                                                 lastAct'.receiver) :
                     lastAct'.conv = c.id ]_vars

\* two calls for a pair without a conversation overlapped: both selects
\* found nothing, one insert created the row and the other was turned down
C19_Witness ==
  /\ lastAct.op = "getOrCreate_return" /\ lastAct.n = 2 /\ ~lastAct.ok
  /\ Cardinality(ExistingConversation(conversations, lastAct.user, lastAct.receiver)) = 1
  /\ ExistingConversation(InitConversations, lastAct.user, lastAct.receiver) = {}
  /\ pending = {}

\* C20: the unread total of an identity is the number of stored messages
\* addressed to it and not read, and a get_unread_count is answered once,
\* to the caller, with unread_count_updated carrying that number.
C20_StoreDerivedUnread ==
  /\ \A u \in Users : getUnreadMessageCount(messages, u) = UnreadTotal(messages, u)
  /\ lastAct.op = "get_unread_count" =>
       outbox = << Emit("unread_count_updated", {lastAct.sock}, BogusConv, lastAct.user,
                        NoMsg, UnreadTotal(messages, lastAct.user)) >>

\* C21: when the store fails in a mark_as_read, no message changes, no
\* messages_read is emitted and the calling connection alone is sent an
\* error event.
C21_MarkReadStoreFailure ==
  [][ (lastAct'.op = "mark_done" /\ ~lastAct'.ok)
        => /\ messages' = messages
           /\ outbox' = << Emit("error", ToSelf(socks, lastAct'.sock),
                                BogusConv, NoUser, NoMsg, 0) >> ]_vars

\* C22: a typing, stop_typing or leave_conversation naming conversation C
\* from an identity that is not a participant of C is answered with an
\* error to the caller alone and changes neither C's typing set nor the
\* rooms; a mark_as_read from such an identity changes no message and
\* emits no messages_read.
C22_ParticipantOnlyRoomEvents ==
  [][ /\ (lastAct'.op \in {"typing", "stop_typing", "leave_conversation"}
            /\ NotParticipant(lastAct'.conv, lastAct'.user))
           => /\ typingUsers' = typingUsers
              /\ rooms' = rooms
              /\ outbox' = << Emit("error", {lastAct'.sock}, BogusConv, NoUser, NoMsg, 0) >>
      /\ (lastAct'.op = "mark_done" /\ NotParticipant(lastAct'.conv, lastAct'.user))
           => /\ messages' = messages
              /\ \A k \in 1..Len(outbox') : outbox'[k].ev # "messages_read" ]_vars

\* C27: an identity without a live connection is in no conversation's
\* typing set.
C27_NoLingeringTypist ==
  \A c \in ConvIds : \A u \in getTypingUsers(typingUsers, c) : LiveSocketsOf(u) # {}

\* C23: leave_conversation(C) on a connection of identity I takes that
\* connection, and no other, out of room conversation:C, removes I, and
\* nobody else, from C's typing set and emits user_stopped_typing for I
\* and C to the sockets that remain in the room.
C23_LeaveClearsTyping ==
  [][ lastAct'.op = "leave_conversation" =>
        LET s == lastAct'.sock
            c == lastAct'.conv
            u == lastAct'.user
        IN  /\ rooms' = [rooms EXCEPT ![s] = @ \ {ConversationRoom(c)}]
            /\ u \notin getTypingUsers(typingUsers', c)
            /\ getTypingUsers(typingUsers', c) = getTypingUsers(typingUsers, c) \ {u}
            /\ outbox' = << Emit("user_stopped_typing",
                                 InRoom(socks, rooms, ConversationRoom(c)) \ {s},
                                 c, u, NoMsg, 0) >> ]_vars

\* a typing identity left while the other participant, typing too, stays
\* in the room and is told
C23_Witness ==
  /\ lastAct.op = "leave_conversation" /\ lastAct.n = 1
  /\ ConversationRoom(lastAct.conv) \notin rooms[lastAct.sock]
  /\ lastAct.user \notin getTypingUsers(typingUsers, lastAct.conv)
  /\ getTypingUsers(typingUsers, lastAct.conv) # {}
  /\ Len(outbox) = 1 /\ outbox[1].ev = "user_stopped_typing"
  /\ \E t \in outbox[1].to : socks[t].user # lastAct.user

Delivered(ob, evs) ==
  \E k \in 1..Len(ob) : ob[k].ev \in evs /\ ob[k].to # {}

\* C24: a leave_conversation(C) on a connection that is not in room
\* conversation:C, and a join_conversation(C) on one that is in it
\* already, change no room, typing set or message and deliver no
\* messages_read, user_stopped_typing or error to anybody.
C24_JoinLeaveIdempotent ==
  [][ /\ (lastAct'.op = "leave_conversation"
            /\ ConversationRoom(lastAct'.conv) \notin rooms[lastAct'.sock])
           => /\ rooms' = rooms /\ typingUsers' = typingUsers /\ messages' = messages
              /\ ~Delivered(outbox', {"user_stopped_typing", "messages_read", "error"})
      /\ (lastAct'.op = "join_mark" /\ lastAct.op = "join_lookup"
            /\ lastAct.sock = lastAct'.sock /\ lastAct.n = 1)
           => /\ rooms' = rooms /\ typingUsers' = typingUsers /\ messages' = messages
              /\ ~Delivered(outbox', {"user_stopped_typing", "messages_read", "error"}) ]_vars

\* C25: a typing event from an identity that is in C's typing set already
\* leaves the typing sets as they are and delivers no user_typing (only
\* the transition to typing notifies); a stop_typing from an identity that
\* is not in the set leaves the typing sets as they are.
C25_TypingIdempotent ==
  [][ /\ (lastAct'.op = "typing"
            /\ lastAct'.user \in getTypingUsers(typingUsers, lastAct'.conv))
           => /\ typingUsers' = typingUsers
              /\ ~Delivered(outbox', {"user_typing"})
      /\ (lastAct'.op = "stop_typing"
            /\ lastAct'.user \notin getTypingUsers(typingUsers, lastAct'.conv))
           => typingUsers' = typingUsers ]_vars

\* C26: when a send_message of A into C completes, A is not in C's typing
\* set, and user_stopped_typing for A has been emitted to the room before
\* every new_message of that step.
C26_SendStopsTypingFirst ==
  lastAct.op = "send_done" =>
    /\ lastAct.user \notin getTypingUsers(typingUsers, lastAct.conv)
    /\ \E j \in 1..Len(outbox) : outbox[j].ev = "new_message" /\ outbox[j].msg = lastAct.msg
    /\ \A j \in 1..Len(outbox) :
         outbox[j].ev = "new_message" =>
           \E i \in 1..(j - 1) :
             outbox[i] = Emit("user_stopped_typing",
                              InRoom(socks, rooms, ConversationRoom(lastAct.conv)),
                              lastAct.conv, lastAct.user, NoMsg, 0)

\* a sender that was typing completed a send while the other participant
\* keeps typing in the room
C26_Witness ==
  /\ lastAct.op = "send_done" /\ lastAct.n = 1
  /\ lastAct.user \notin getTypingUsers(typingUsers, lastAct.conv)
  /\ getTypingUsers(typingUsers, lastAct.conv) # {}
  /\ outbox[1].ev = "user_stopped_typing"
  /\ \E t \in outbox[1].to : socks[t].user # lastAct.user

\* C28: when a connection's leave_conversation(C) runs while its earlier
\* join_conversation(C) is suspended on the lookup, the join that resumes
\* next does not put the connection in room conversation:C (the rest of
\* the join handler leaves the rooms alone, so this is the membership once
\* both handlers have completed).
C28_JoinLeaveRace ==
  [][ (lastAct.op = "leave_conversation" /\ lastAct'.op = "join_lookup"
         /\ lastAct'.sock = lastAct.sock /\ lastAct'.conv = lastAct.conv)
        => ConversationRoom(lastAct'.conv) \notin rooms'[lastAct'.sock] ]_vars

\* C29: when the markMessagesAsRead of a join_conversation fails, no
\* messages_read reaches the other participant.
C29_NoFalseReadReceipt ==
  (lastAct.op = "join_mark" /\ ~lastAct.ok) => ~Delivered(outbox, {"messages_read"})

\* C30: a getOrCreateConversation call whose insert resolves when a row
\* for its pair exists (another call's insert came first) returns that
\* row with error = null.
C30_ConcurrentGetOrCreate ==
  [][ (lastAct'.op = "getOrCreate_return" /\ lastAct'.n = 2
         /\ ExistingConversation(conversations, lastAct'.user, lastAct'.receiver) # {})
        => /\ lastAct'.ok
           /\ \E c \in ExistingConversation(conversations, lastAct'.user, lastAct'.receiver) :
                lastAct'.conv = c.id ]_vars
====
